---- MODULE Spec2Model ----
(***************************************************************************)
(* TruthCore v1: the /analyze pipeline of src/main.py (analyze_article).   *)
(*                                                                         *)
(* One request is followed from the fetch of the article, through the LLM  *)
(* call and the parse of its answer, the per-claim search verification and *)
(* the aggregation, to the returned AnalyzeResponse.                       *)
(*                                                                         *)
(* Encoding.  Python strings that the code concatenates or searches are    *)
(* sequences of one-character strings.  Confidences are counted in tenths  *)
(* (0.5 is 5, 1.0 is 10, the boost 0.3 is 3).  overall_confidence is the   *)
(* fraction [num, den] the division of line 137 computes.  A Python dict   *)
(* is a function whose DOMAIN is its set of keys, so a missing key is a    *)
(* key outside the DOMAIN.  The three external parties (web server, LLM,   *)
(* search API) answer nondeterministically; "silent" is a party that       *)
(* accepts the request and never answers.                                  *)
(***************************************************************************)
EXTENDS Integers, Sequences, FiniteSets, TLC

(* ----------------------------- bounds ---------------------------------- *)

\* longest JSON array / triplet list the LLM is made to answer
MaxClaims == 2
\* most organic results one search answer carries
MaxSnippets == 4

(* ------------------------ program constants ---------------------------- *)

\* `if claim.confidence < 0.5`, in tenths
Threshold == 5
\* `claim.confidence + 0.3`, in tenths
Boost == 3
\* `min(1.0, ...)`, in tenths
One == 10
\* `[:3]`
EvidenceCount == 3

(* ------------------------------ strings -------------------------------- *)

UpperAlpha == <<"A","B","C","D","E","F","G","H","I","J","K","L","M","N","O","P","Q","R","S","T","U","V","W","X","Y","Z">>
LowerAlpha == <<"a","b","c","d","e","f","g","h","i","j","k","l","m","n","o","p","q","r","s","t","u","v","w","x","y","z">>

\* str.lower() on one character
LowerChar(c) ==
  IF \E i \in 1..Len(UpperAlpha) : UpperAlpha[i] = c
  THEN LowerAlpha[CHOOSE i \in 1..Len(UpperAlpha) : UpperAlpha[i] = c]
  ELSE c

\* str.lower()
Lower(s) == [i \in 1..Len(s) |-> LowerChar(s[i])]

\* `sub in s`
Contains(sub, s) ==
  \E i \in 1..(Len(s) - Len(sub) + 1) : SubSeq(s, i, i + Len(sub) - 1) = sub

\* `sep.join(parts)`
RECURSIVE Join(_, _)
Join(sep, parts) ==
  IF parts = <<>> THEN <<>>
  ELSE IF Len(parts) = 1 THEN parts[1]
  ELSE parts[1] \o sep \o Join(sep, Tail(parts))

VerifiedPrefix == <<" ","(","V","e","r","i","f","i","e","d"," ","e","v","i","d","e","n","c","e",":"," ">>
FailedPrefix == <<" ","(","S","e","a","r","c","h"," ","v","e","r","i","f","i","c","a","t","i","o","n"," ","f","a","i","l","e","d",":"," ">>
FetchErrorPrefix == <<"e","r","r","o","r",":"," ","F","a","i","l","e","d"," ","t","o"," ","f","e","t","c","h"," ","a","r","t","i","c","l","e"," ","-"," ">>
LlmErrorPrefix == <<"e","r","r","o","r",":"," ","x","A","I"," ","A","P","I"," ","f","a","i","l","e","d"," ","-"," ">>
SuccessStatus == <<"s","u","c","c","e","s","s">>
EvidenceSep == <<";"," ">>
CloseParen == <<")">>
KwConfirm == <<"c","o","n","f","i","r","m">>
KwTrue == <<"t","r","u","e">>

(* --------------------------- exceptions -------------------------------- *)

NoExc == "none"

\* the exception classes the modelled calls raise; all derive from Exception
Exceptions ==
  {"HTTPError", "ConnectionError", "Timeout", "APIError",
   "JSONDecodeError", "TypeError", "KeyError", "ValidationError"}

\* str(e)
ExcStr(e) ==
  CASE e = "HTTPError"       -> <<"4","0","4">>
    [] e = "ConnectionError" -> <<"r","e","f","u","s","e","d">>
    [] e = "Timeout"         -> <<"t","i","m","e","d"," ","o","u","t">>
    [] e = "APIError"        -> <<"4","0","1">>
    [] e = "JSONDecodeError" -> <<"E","x","p","e","c","t","i","n","g">>
    [] e = "TypeError"       -> <<"t","y","p","e">>
    [] e = "KeyError"        -> <<"k","e","y">>
    [] OTHER                 -> <<"v","a","l","i","d","a","t","i","o","n">>

\* `except Exception as e:` of the fetch
ExceptFetch(e) == e \in Exceptions
\* `except json.JSONDecodeError:`
ExceptJSONDecode(e) == e = "JSONDecodeError"
\* the search handler catching HTTP errors only
ExceptSearch_Narrow(e) == e = "HTTPError"

\* `except Exception as search_e:`
ExceptSearch(e) == e \in Exceptions
\* the outer handler catching the SDK's error class only
ExceptOuter_Narrow(e) == e = "APIError"

\* `except Exception as e:` around the LLM call, the parse and the verification
ExceptOuter(e) == e \in Exceptions

(* ------------------------- the network calls --------------------------- *)

\* the timeout each call is given: <<seconds>>, or <<>> for none
TimeoutOf(call) ==
  CASE call = "fetch"  -> <<10>>
    [] call = "llm"    -> <<3600>>
    [] call = "search" -> <<>>

\* the call in flight comes back to the pipeline (with a value or an exception)
Returns(p) == p.status /= "silent" \/ TimeoutOf(p.call) /= <<>>

\* the exception the call in flight raises, NoExc when it returns a value
Raised(p) ==
  CASE p.status = "ok"          -> NoExc
    [] p.status = "http_error"  -> "HTTPError"
    [] p.status = "conn_error"  -> "ConnectionError"
    [] p.status = "api_error"   -> "APIError"
    [] p.status = "bad_json"    -> "JSONDecodeError"
    [] p.status = "silent"      -> "Timeout"

NoBody == <<>>
NoCall == [call |-> "none", status |-> "ok", body |-> NoBody]

(* ------------------------- the LLM's answer ---------------------------- *)

\* a JSON number, or a JSON string that is no number
Num(n) == [kind |-> "num", num |-> n]
NotNum == [kind |-> "str", num |-> 0]

Item(t, c) == [text |-> t, confidence |-> Num(c), explanation |-> <<"E">>]

\* records that carry the three fields, with a numeric confidence
WellFormedItems == {Item("A", -2), Item("B", 3), Item("C", 5), Item("D", 15)}

\* records with a missing key or a confidence that is no number
MalformedItems ==
  { [confidence |-> Num(3), explanation |-> <<"E">>],
    [text |-> "M", explanation |-> <<"E">>],
    [text |-> "N", confidence |-> NotNum, explanation |-> <<"E">>],
    [text |-> "X", confidence |-> Num(3)] }

Items == WellFormedItems \cup MalformedItems

SeqsUpTo(S, n) == UNION {[1..k -> S] : k \in 0..n}

\* The text the LLM returns: optional prose, a body, optional prose.
Content(pre, body, items, post) ==
  [pre |-> pre, body |-> body, items |-> items, post |-> post]

Contents ==
  {Content(FALSE, "array", its, FALSE) : its \in SeqsUpTo(Items, MaxClaims)}
  \cup {Content(TRUE, "array", its, TRUE) : its \in SeqsUpTo(WellFormedItems, MaxClaims)}
  \cup {Content(FALSE, "triplets", its, FALSE) : its \in SeqsUpTo(WellFormedItems, MaxClaims) \ {<<>>}}
  \cup {Content(FALSE, b, <<>>, FALSE) :
          b \in {"prose", "truncated_array", "number", "null", "object", "empty_object"}}

\* bodies that are a complete JSON document
JsonBodies == {"array", "number", "null", "object", "empty_object"}

\* json.loads(claims_raw)
json_loads(raw) ==
  IF raw.pre \/ raw.post \/ raw.body \notin JsonBodies
  THEN [exc |-> "JSONDecodeError", value |-> raw]
  ELSE [exc |-> NoExc, value |-> raw]

\* Claim(text=item["text"], confidence=item["confidence"], explanation=item["explanation"])
ClaimExc(item) ==
  IF {"text", "confidence", "explanation"} \subseteq DOMAIN item
  THEN IF item.confidence.kind = "num" THEN NoExc ELSE "ValidationError"
  ELSE "KeyError"

MakeClaim(item) ==
  [text |-> item.text, confidence |-> item.confidence.num, explanation |-> item.explanation]

\* `for item in claims_data: claims.append(Claim(...))`
BuildClaims(claims_data) ==
  CASE claims_data.body = "array" ->
         IF \E i \in 1..Len(claims_data.items) : ClaimExc(claims_data.items[i]) /= NoExc
         THEN [exc |-> ClaimExc(claims_data.items[
                          CHOOSE i \in 1..Len(claims_data.items) :
                            /\ ClaimExc(claims_data.items[i]) /= NoExc
                            /\ \A j \in 1..(i-1) : ClaimExc(claims_data.items[j]) = NoExc]),
               claims |-> <<>>]
         ELSE [exc |-> NoExc,
               claims |-> [i \in 1..Len(claims_data.items) |-> MakeClaim(claims_data.items[i])]]
    [] claims_data.body = "empty_object" -> [exc |-> NoExc, claims |-> <<>>]
    [] OTHER -> [exc |-> "TypeError", claims |-> <<>>]

\* the try/except json.JSONDecodeError block: the claims, or the exception
\* that leaves the block
ParseClaims(raw) ==
  LET d == json_loads(raw)
      b == IF d.exc = NoExc THEN BuildClaims(d.value) ELSE [exc |-> d.exc, claims |-> <<>>]
  IN  IF b.exc /= NoExc /\ ExceptJSONDecode(b.exc)
      THEN [exc |-> NoExc, claims |-> <<>>]
      ELSE b

(* ------------------------ the search's answer -------------------------- *)

SnipConfirmed == <<"C","o","n","f","i","r","m","e","d">>
SnipTrue == <<"I","t"," ","i","s"," ","T","R","U","E">>
SnipPlain == <<"U","n","c","l","e","a","r">>

Hit(s) == [snippet |-> s, title |-> "t"]
HitNoSnippet == [title |-> "t"]

\* n organic results, the k-th of them (none when k = 0) supporting the claim
Results(n, k, s) == [i \in 1..n |-> IF i = k THEN Hit(s) ELSE Hit(SnipPlain)]

\* n organic results, the last of them without a snippet
ResultsNoSnippet(n) == [i \in 1..n |-> IF i = n THEN HitNoSnippet ELSE Hit(SnipPlain)]

\* The JSON documents the search API answers: no supporting result, the
\* supporting result last, the supporting result first in the longest list,
\* a result without snippet, and an answer without organic_results.
SearchBodies ==
  {[organic_results |-> Results(n, k, SnipConfirmed)] : n \in 0..MaxSnippets, k \in {0, MaxSnippets}}
  \cup {[organic_results |-> Results(n, n, SnipConfirmed)] : n \in 1..MaxSnippets}
  \cup {[organic_results |-> Results(MaxSnippets, 1, SnipConfirmed)],
        [organic_results |-> Results(1, 1, SnipTrue)],
        [organic_results |-> ResultsNoSnippet(1)],
        [organic_results |-> ResultsNoSnippet(MaxSnippets)],
        [search_metadata |-> "error"]}

Min(a, b) == IF a < b THEN a ELSE b

\* [result['snippet'] for result in serpi_results.get('organic_results', [])[:3]]
Evidence(serpi_results) ==
  LET organic == IF "organic_results" \in DOMAIN serpi_results
                 THEN serpi_results.organic_results ELSE <<>>
      first == SubSeq(organic, 1, Min(EvidenceCount, Len(organic)))
  IN  IF \E i \in 1..Len(first) : "snippet" \notin DOMAIN first[i]
      THEN [exc |-> "KeyError", evidence |-> <<>>]
      ELSE [exc |-> NoExc, evidence |-> [i \in 1..Len(first) |-> first[i].snippet]]

\* the keywords looked up without lower()
Supports_CaseSensitive(evidence) ==
  \E i \in 1..Len(evidence) :
    Contains(KwConfirm, evidence[i]) \/ Contains(KwTrue, evidence[i])

\* any("confirm" in snippet.lower() or "true" in snippet.lower() for snippet in evidence)
Supports(evidence) ==
  \E i \in 1..Len(evidence) :
    Contains(KwConfirm, Lower(evidence[i])) \/ Contains(KwTrue, Lower(evidence[i]))

\* min(1.0, claim.confidence + 0.3)
Boosted(c) == Min(One, c + Boost)

\* the body of the try block once the evidence is built
OnSearchSuccess(claim, evidence) ==
  [claim EXCEPT
     !.explanation = @ \o VerifiedPrefix \o Join(EvidenceSep, evidence) \o CloseParen,
     !.confidence = IF Supports(evidence) THEN Boosted(@) ELSE @]

\* claim.explanation += f" (Search verification failed: {str(search_e)})"
OnSearchFailure(claim, e) ==
  [claim EXCEPT !.explanation = @ \o FailedPrefix \o ExcStr(e) \o CloseParen]

\* the threshold compared with <=
NeedsSearch_Inclusive(claim) == claim.confidence <= Threshold

\* `if claim.confidence < 0.5:`
NeedsSearch(claim) == claim.confidence < Threshold

(* ------------------------------ state ---------------------------------- *)

VARIABLES
  pc,          \* where analyze_article stands
  pending,     \* the network call in flight and how the other party answers it
  claims_raw,  \* response.content[0], taken as the text of the LLM's answer
  claims,      \* the list `claims`, mutated in place by the verification
  idx,         \* position of `for claim in claims`
  returned,    \* the AnalyzeResponse values returned so far
  extracted,   \* history: `claims` as the parse left it
  calls        \* history: the network calls issued, in order, each with the
               \* claim it is for, its query and the answer it gets

vars == <<pc, pending, claims_raw, claims, idx, returned, extracted, calls>>

(* --------------------------- the response ------------------------------ *)

RECURSIVE SumConfidence(_)
SumConfidence(cs) == IF cs = <<>> THEN 0 ELSE cs[1].confidence + SumConfidence(Tail(cs))

Zero == [num |-> 0, den |-> 1]

\* sum(c.confidence for c in claims) / len(claims) if claims else 0.0
OverallConfidence(cs) ==
  IF cs /= <<>> THEN [num |-> SumConfidence(cs), den |-> Len(cs)] ELSE Zero

\* the mean taken over the claims as they were before the verification
SuccessResponse_Stale(cs) ==
  [claims |-> cs, overall_confidence |-> OverallConfidence(extracted), status |-> SuccessStatus]

\* AnalyzeResponse(..., claims=claims, overall_confidence=overall_confidence, status="success")
SuccessResponse(cs) ==
  [claims |-> cs, overall_confidence |-> OverallConfidence(cs), status |-> SuccessStatus]

\* AnalyzeResponse(..., claims=[], overall_confidence=0.0, status=f"error: ... - {str(e)}")
ErrorResponse(prefix, e) ==
  [claims |-> <<>>, overall_confidence |-> Zero, status |-> prefix \o ExcStr(e)]

(* ------------------------------ steps ---------------------------------- *)

NoContent == Content(FALSE, "none", <<>>, FALSE)

Init ==
  /\ pc = "start"
  /\ pending = NoCall
  /\ claims_raw = NoContent
  /\ claims = <<>>
  /\ idx = 0
  /\ returned = <<>>
  /\ extracted = <<>>
  /\ calls = <<>>

\* `return AnalyzeResponse(...)`
Return(resp) ==
  /\ returned' = Append(returned, resp)
  /\ pc' = "done"
  /\ pending' = NoCall

\* an exception leaves analyze_article
Escape ==
  /\ pc' = "raised"
  /\ pending' = NoCall
  /\ UNCHANGED returned

FetchReplies == {"ok", "http_error", "conn_error", "silent"}
LlmErrorReplies == {"api_error", "conn_error", "silent"}
SearchErrorReplies == {"http_error", "conn_error", "bad_json", "silent"}

\* requests.get(request.url, timeout=10) is sent
Fetch ==
  /\ pc = "start"
  /\ \E st \in FetchReplies :
       pending' = [call |-> "fetch", status |-> st, body |-> NoBody]
  /\ pc' = "fetching"
  /\ calls' = Append(calls, [claim |-> 0, q |-> "", reply |-> pending'])
  /\ UNCHANGED <<claims_raw, claims, idx, returned, extracted>>

\* the fetch comes back: on an exception the error response of the fetch,
\* else the article text is cut and the LLM call is sent
Fetched ==
  /\ pc = "fetching"
  /\ Returns(pending)
  /\ LET e == Raised(pending) IN
       IF e /= NoExc
       THEN /\ IF ExceptFetch(e) THEN Return(ErrorResponse(FetchErrorPrefix, e)) ELSE Escape
            /\ UNCHANGED calls
       ELSE /\ pc' = "extracting"
            /\ \/ \E st \in LlmErrorReplies :
                    pending' = [call |-> "llm", status |-> st, body |-> NoContent]
               \/ \E c \in Contents :
                    pending' = [call |-> "llm", status |-> "ok", body |-> c]
            /\ calls' = Append(calls, [claim |-> 0, q |-> "", reply |-> pending'])
            /\ UNCHANGED returned
  /\ UNCHANGED <<claims_raw, claims, idx, extracted>>

\* an exception reaches the outer handler
OuterHandler(e) ==
  IF ExceptOuter(e) THEN Return(ErrorResponse(LlmErrorPrefix, e)) ELSE Escape

\* chat.sample() comes back: on an exception the outer handler, else the
\* content is parsed into `claims`
Extracted ==
  /\ pc = "extracting"
  /\ Returns(pending)
  /\ LET e == Raised(pending) IN
       IF e /= NoExc
       THEN /\ OuterHandler(e)
            /\ UNCHANGED <<claims_raw, claims, idx, extracted>>
       ELSE LET parsed == ParseClaims(pending.body) IN
            /\ claims_raw' = pending.body
            /\ IF parsed.exc /= NoExc
               THEN /\ OuterHandler(parsed.exc)
                    /\ UNCHANGED <<claims, idx, extracted>>
               ELSE /\ claims' = parsed.claims
                    /\ extracted' = parsed.claims
                    /\ idx' = 1
                    /\ pc' = "verifying"
                    /\ pending' = NoCall
                    /\ UNCHANGED returned
  /\ UNCHANGED calls

\* the loop reaches a claim that is not searched
Skip ==
  /\ pc = "verifying"
  /\ idx <= Len(claims)
  /\ ~NeedsSearch(claims[idx])
  /\ idx' = idx + 1
  /\ UNCHANGED <<pc, pending, claims_raw, claims, returned, extracted, calls>>

\* the loop reaches a claim that is searched: requests.get(serpi_url, params=params) is sent
Search ==
  /\ pc = "verifying"
  /\ idx <= Len(claims)
  /\ NeedsSearch(claims[idx])
  /\ \/ \E st \in SearchErrorReplies :
          pending' = [call |-> "search", status |-> st, body |-> NoBody]
     \/ \E b \in SearchBodies :
          pending' = [call |-> "search", status |-> "ok", body |-> b]
  /\ pc' = "searching"
  /\ calls' = Append(calls, [claim |-> idx, q |-> claims[idx].text, reply |-> pending'])
  /\ UNCHANGED <<claims_raw, claims, idx, returned, extracted>>

\* the search comes back: the evidence is appended and the confidence
\* boosted, or the failure is noted in the explanation
Searched ==
  /\ pc = "searching"
  /\ Returns(pending)
  /\ LET e1 == Raised(pending)
         ev == IF e1 = NoExc THEN Evidence(pending.body)
               ELSE [exc |-> e1, evidence |-> <<>>]
     IN  IF ev.exc = NoExc
         THEN /\ claims' = [claims EXCEPT ![idx] = OnSearchSuccess(@, ev.evidence)]
              /\ idx' = idx + 1
              /\ pc' = "verifying"
              /\ pending' = NoCall
              /\ UNCHANGED returned
         ELSE IF ExceptSearch(ev.exc)
         THEN /\ claims' = [claims EXCEPT ![idx] = OnSearchFailure(@, ev.exc)]
              /\ idx' = idx + 1
              /\ pc' = "verifying"
              /\ pending' = NoCall
              /\ UNCHANGED returned
         ELSE /\ OuterHandler(ev.exc)
              /\ UNCHANGED <<claims, idx>>
  /\ UNCHANGED <<claims_raw, extracted, calls>>

\* the loop is over: the mean is computed and the success response returned
Aggregate ==
  /\ pc = "verifying"
  /\ idx > Len(claims)
  /\ Return(SuccessResponse(claims))
  /\ UNCHANGED <<claims_raw, claims, idx, extracted, calls>>

Next ==
  \/ Fetch
  \/ Fetched
  \/ Extracted
  \/ Skip
  \/ Search
  \/ Searched
  \/ Aggregate

Spec == Init /\ [][Next]_vars

\* a request that is being served keeps being served
LiveSpec == Spec /\ WF_vars(Next)

TypeOK ==
  /\ pc \in {"start", "fetching", "extracting", "verifying", "searching", "done", "raised"}
  /\ idx \in 0..(MaxClaims + 1)
  /\ Len(returned) <= 1
  /\ Len(claims) <= MaxClaims

(* ------------------------- claims: vocabulary -------------------------- *)

StartsWith(s, p) == Len(s) >= Len(p) /\ SubSeq(s, 1, Len(p)) = p

FetchErrorStart == <<"e","r","r","o","r",":"," ","F","a","i","l","e","d"," ","t","o"," ","f","e","t","c","h"," ","a","r","t","i","c","l","e">>
LlmErrorStart == <<"e","r","r","o","r",":"," ","x","A","I"," ","A","P","I"," ","f","a","i","l","e","d">>

Done == pc = "done"
Result == returned[1]

CallsOf(kind) == {k \in 1..Len(calls) : calls[k].reply.call = kind}
SearchesFor(i) == {k \in CallsOf("search") : calls[k].claim = i}

\* the fetch, or the LLM call, ended in a failure of the call itself
FetchFailed == \E k \in CallsOf("fetch") : calls[k].reply.status /= "ok"
LlmFailed == \E k \in CallsOf("llm") : calls[k].reply.status /= "ok"
\* the LLM call returned content
LlmAnswered == \E k \in CallsOf("llm") : calls[k].reply.status = "ok"

\* the first three organic results of a search answer (none without the key)
FirstHits(body) ==
  IF "organic_results" \in DOMAIN body
  THEN SubSeq(body.organic_results, 1,
              IF Len(body.organic_results) < 3 THEN Len(body.organic_results) ELSE 3)
  ELSE <<>>

\* the search sent as call k failed: no 2xx answer, no JSON, or a result
\* among those consumed without a snippet
SearchFailedAt(k) ==
  \/ calls[k].reply.status /= "ok"
  \/ \E j \in 1..Len(FirstHits(calls[k].reply.body)) :
       "snippet" \notin DOMAIN FirstHits(calls[k].reply.body)[j]

(* ------------------------------- C1 ----------------------------------- *)

\* C1: analyze_article never raises and returns exactly one result; after a
\* failed fetch the result is empty with overall_confidence 0.0 and a status
\* starting with "error: Failed to fetch article", and neither the LLM nor
\* the search was called; after a failed LLM call the result is empty with
\* overall_confidence 0.0 and a status starting with "error: xAI API failed",
\* and the search was not called.
C1_NeverRaises ==
  /\ pc /= "raised"
  /\ Len(returned) = (IF Done THEN 1 ELSE 0)
  /\ FetchFailed => CallsOf("llm") = {} /\ CallsOf("search") = {}
  /\ LlmFailed => CallsOf("search") = {}
  /\ Done /\ FetchFailed =>
       /\ Result.claims = <<>>
       /\ Result.overall_confidence.num = 0
       /\ StartsWith(Result.status, FetchErrorStart)
  /\ Done /\ LlmFailed =>
       /\ Result.claims = <<>>
       /\ Result.overall_confidence.num = 0
       /\ StartsWith(Result.status, LlmErrorStart)

\* the LLM call failed (here: the connection) and a result was returned
C1_Witness ==
  /\ Done
  /\ \E k \in CallsOf("llm") : calls[k].reply.status = "conn_error"

(* ------------------------------- C2 ----------------------------------- *)

\* C2: whenever the LLM call returns content, whatever the content, the
\* result has status "success" (an error status comes from a failed fetch or
\* a failed LLM call only), and content that json.loads rejects gives no claims.
C2_ContentNeverErrors ==
  Done /\ LlmAnswered =>
    /\ Result.status = SuccessStatus
    /\ (claims_raw.pre \/ claims_raw.post \/ claims_raw.body \in {"prose", "truncated_array"})
         => Result.claims = <<>>

(* ------------------------------- C3 ----------------------------------- *)

\* C3: every claim of a returned result has its confidence in [0.0, 1.0].
C3_ConfidenceInUnitInterval ==
  \A r \in 1..Len(returned) : \A i \in 1..Len(returned[r].claims) :
    /\ 0 <= returned[r].claims[i].confidence
    /\ returned[r].claims[i].confidence <= 10

(* ------------------------------- C4 ----------------------------------- *)

RECURSIVE Total(_)
Total(cs) == IF Len(cs) = 0 THEN 0 ELSE Total(SubSeq(cs, 1, Len(cs) - 1)) + cs[Len(cs)].confidence

\* C4: in every returned result overall_confidence is the arithmetic mean of
\* the confidences of that result's claims, and exactly 0.0 without claims.
C4_OverallIsMean ==
  \A r \in 1..Len(returned) :
    LET res == returned[r] IN
      /\ res.overall_confidence.den > 0
      /\ IF Len(res.claims) = 0
         THEN res.overall_confidence.num = 0
         ELSE res.overall_confidence.num * Len(res.claims)
                = Total(res.claims) * res.overall_confidence.den

\* two claims were returned, and the verification changed a confidence
C4_Witness ==
  /\ Done
  /\ Len(Result.claims) = 2
  /\ \E i \in 1..2 : Result.claims[i].confidence /= extracted[i].confidence

(* ------------------------------- C5 ----------------------------------- *)

\* C5: the search is called for a claim only if its extracted confidence is
\* below 0.5, with the claim's text as query, and at most once per claim; a
\* claim extracted with confidence 0.5 or more is never searched and is
\* returned with text, confidence and explanation unchanged.
C5_SearchOnlyBelowThreshold ==
  /\ \A k \in CallsOf("search") :
       /\ calls[k].claim \in 1..Len(extracted)
       /\ extracted[calls[k].claim].confidence < 5
       /\ calls[k].q = extracted[calls[k].claim].text
  /\ \A i \in 1..Len(extracted) : Cardinality(SearchesFor(i)) <= 1
  /\ Done /\ Result.status = SuccessStatus =>
       /\ Len(Result.claims) = Len(extracted)
       /\ \A i \in 1..Len(extracted) :
            extracted[i].confidence >= 5 => Result.claims[i] = extracted[i]

\* a result with a claim extracted at exactly 0.5 that was passed through
\* and a claim below 0.5 that was searched
C5_Witness ==
  /\ Done
  /\ \E i, j \in 1..Len(extracted) :
       /\ extracted[i].confidence = 5
       /\ SearchesFor(i) = {}
       /\ extracted[j].confidence < 5
       /\ SearchesFor(j) /= {}

(* ------------------------------- C6 ----------------------------------- *)

\* C6: a failed search for one claim stays with that claim: its explanation
\* gets " (Search verification failed: <detail>)" appended, its confidence
\* is unchanged, every later claim below 0.5 is still searched, the result
\* keeps every extracted claim in extraction order and its status is "success".
C6_SearchFailureIsolated ==
  Done /\ (\E k \in CallsOf("search") : SearchFailedAt(k)) =>
    /\ Result.status = SuccessStatus
    /\ Len(Result.claims) = Len(extracted)
    /\ \A i \in 1..Len(extracted) :
         /\ Result.claims[i].text = extracted[i].text
         /\ extracted[i].confidence < 5 => SearchesFor(i) /= {}
         /\ \A k \in SearchesFor(i) : SearchFailedAt(k) =>
              /\ Result.claims[i].confidence = extracted[i].confidence
              /\ \E e \in Exceptions :
                   Result.claims[i].explanation
                     = extracted[i].explanation \o FailedPrefix \o ExcStr(e) \o <<")">>

\* the search of the first claim failed (not by an HTTP status) and the
\* search of the second claim succeeded
C6_Witness ==
  /\ Done
  /\ Len(extracted) = 2
  /\ \E k \in SearchesFor(1) : calls[k].reply.status = "conn_error"
  /\ \E k \in SearchesFor(2) : ~SearchFailedAt(k)

(* ------------------------------- C7 ----------------------------------- *)

\* a record the claim keeps: it has a text and a confidence that is a number
C7_Kept(item) ==
  /\ "text" \in DOMAIN item
  /\ "confidence" \in DOMAIN item
  /\ item.confidence.kind = "num"

\* C7: a malformed record of the JSON array never fails the batch: records
\* without text or with a confidence that is no number are dropped, a record
\* without explanation is kept with explanation "", and every well-formed
\* record of the array is a claim of the result.
C7_MalformedRecordDropped ==
  Done /\ LlmAnswered /\ claims_raw.body = "array" /\ ~claims_raw.pre /\ ~claims_raw.post =>
    LET kept == SelectSeq(claims_raw.items, C7_Kept) IN
      /\ Len(Result.claims) = Len(kept)
      /\ Len(extracted) = Len(kept)
      /\ \A i \in 1..Len(kept) :
           /\ Result.claims[i].text = kept[i].text
           /\ "explanation" \notin DOMAIN kept[i] => extracted[i].explanation = <<>>

(* ------------------------------- C8 ----------------------------------- *)

\* C8: the parse is a chain of fallbacks: a JSON array wrapped in prose gives
\* the claims of the bare array (the text from the first "[" to the last "]"
\* is reparsed), and a response of blank-line-separated triplets gives one
\* claim per triplet.
C8_FallbackChain ==
  Done /\ LlmAnswered /\ claims_raw.body \in {"array", "triplets"}
       /\ (\A i \in 1..Len(claims_raw.items) : claims_raw.items[i] \in WellFormedItems) =>
    /\ Len(Result.claims) = Len(claims_raw.items)
    /\ \A i \in 1..Len(claims_raw.items) : Result.claims[i].text = claims_raw.items[i].text

(* ------------------------------- C9 ----------------------------------- *)

\* the snippets of the first three results of a search answer
C9_Snippets(body) == [j \in 1..Len(FirstHits(body)) |-> FirstHits(body)[j].snippet]

RECURSIVE C9_Joined(_)
C9_Joined(ss) ==
  IF Len(ss) = 0 THEN <<>>
  ELSE IF Len(ss) = 1 THEN ss[1]
  ELSE C9_Joined(SubSeq(ss, 1, Len(ss) - 1)) \o <<";", " ">> \o ss[Len(ss)]

C9_Mentions(s, kw) ==
  \E a \in 1..Len(s) : a + Len(kw) - 1 <= Len(s) /\ Lower(SubSeq(s, a, a + Len(kw) - 1)) = kw

\* C9: for a claim extracted with confidence c < 0.5 whose search succeeds,
\* " (Verified evidence: <snippets joined by '; '>)" built from at most the
\* first 3 snippets is appended to the explanation, and the confidence is
\* min(1.0, c + 0.3) if one of those snippets contains "confirm" or "true"
\* in any case, and c otherwise.
C9_EvidenceAndBoost ==
  Done /\ Result.status = SuccessStatus =>
    \A i \in 1..Len(extracted) : \A k \in SearchesFor(i) : ~SearchFailedAt(k) =>
      LET ss == C9_Snippets(calls[k].reply.body)
          c  == extracted[i].confidence
          hit == \E j \in 1..Len(ss) :
                   C9_Mentions(ss[j], KwConfirm) \/ C9_Mentions(ss[j], KwTrue)
      IN  /\ Len(ss) <= 3
          /\ Result.claims[i].explanation
               = extracted[i].explanation \o VerifiedPrefix \o C9_Joined(ss) \o <<")">>
          /\ Result.claims[i].confidence
               = IF hit THEN (IF c + 3 < 10 THEN c + 3 ELSE 10) ELSE c

\* a search answered four results, a capitalised "Confirmed" among the first
\* three, and the claim's confidence was raised
C9_Witness ==
  /\ Done
  /\ \E i \in 1..Len(extracted) : \E k \in SearchesFor(i) :
       /\ calls[k].reply.status = "ok"
       /\ "organic_results" \in DOMAIN calls[k].reply.body
       /\ Len(calls[k].reply.body.organic_results) > 3
       /\ \E j \in 1..3 : calls[k].reply.body.organic_results[j] = Hit(SnipConfirmed)
       /\ Result.claims[i].confidence = extracted[i].confidence + 3

(* ------------------------------- C10 ---------------------------------- *)

\* C10: every execution ends with a result, also when a party never answers:
\* each network call carries a timeout that turns silence into a failure.
C10_Terminates == <>(pc = "done")

====
